---- MODULE Spec2Model ----
(***************************************************************************)
(* A model of ea.py: the EnhancedApp helpers that touch the filesystem     *)
(* (_create_path, create_folder_structure, _find_file), the error-page     *)
(* handlers, run_livereload, and the `required` template tag of            *)
(* RequiredVariablesExtension.                                             *)
(*                                                                         *)
(* Strings are sequences of lexemes: "/" and "." stand for themselves and  *)
(* every other lexeme ("static", "scss", ...) is a run of characters with  *)
(* neither a separator nor a dot in it.  Comparing positions of "/" and    *)
(* "." in such a sequence gives what comparing them in the character       *)
(* string gives.                                                           *)
(***************************************************************************)
EXTENDS Integers, Sequences, FiniteSets, TLC

VARIABLES
    fs,         \* the filesystem: node -> "dir", "data" (a file with content) or "empty" (an empty file)
    fs0,        \* the filesystem the behaviour started from
    calls,      \* how many filesystem operations have been called
    call,       \* the last call: its name, argument, the filesystem before it, its outcome
    handlers,   \* the error handlers registered with the app: status code -> handler
    log,        \* the errors handled so far, each with the response given
    lrpc,       \* where run_livereload stands
    lrPort,     \* the port run_livereload was called with
    debug,      \* app.debug
    lrGlobal,   \* jinja_env.globals['livereload']
    autoReload, \* jinja_env.auto_reload
    watched,    \* the patterns registered with the livereload server, in order
    served,     \* the serve call made on the livereload server
    stream,     \* the tokens of a template from its `required` tag on
    parsed,     \* what RequiredVariablesExtension.parse gave for them
    rendered    \* what rendering the parsed node gave

fsvars == <<fs, fs0, calls, call>>
webvars == <<handlers, log>>
lrvars == <<lrpc, lrPort, debug, lrGlobal, autoReload, watched, served>>
tplvars == <<stream, parsed, rendered>>
vars == <<fsvars, webvars, lrvars, tplvars>>

----------------------------------------------------------------------------
(* Bounds of the model. *)

\* filesystem operations called in one behaviour
MaxCalls == 2

\* search folders handed to _find_file
MaxPaths == 2

\* errors handled in one behaviour
MaxRequests == 2

\* assignments written in a `required` tag
MaxAssign == 3

----------------------------------------------------------------------------
(* Strings and os.path. *)

SEP == "/"
DOT == "."
PARDIR == <<DOT, DOT>>

\* the working directory, whose name has a dot in it
Cwd == <<SEP, "w", DOT, "d">>

\* str.rfind: the last position of c in s, 1-based, 0 when there is none
\* (Python: 0-based, -1 when there is none; the order of two results is the same)
RFind(s, c) ==
    LET hits == {i \in 1..Len(s) : s[i] = c}
    IN  IF hits = {} THEN 0 ELSE CHOOSE i \in hits : \A j \in hits : j <= i

\* str.find: the first position of c in s, 0 when there is none
Find(s, c) ==
    LET hits == {i \in 1..Len(s) : s[i] = c}
    IN  IF hits = {} THEN 0 ELSE CHOOSE i \in hits : \A j \in hits : i <= j

IsAbs(s) == Len(s) > 0 /\ s[1] = SEP

\* os.path.join(a, b)
Join(a, b) ==
    IF IsAbs(b) THEN b
    ELSE IF a = <<>> \/ a[Len(a)] = SEP THEN a \o b
    ELSE a \o <<SEP>> \o b

\* s.split('/'): the components of s, empty ones included
RECURSIVE Comps(_)
Comps(s) ==
    LET k == Find(s, SEP)
    IN  IF k = 0 THEN <<s>>
        ELSE <<SubSeq(s, 1, k - 1)>> \o Comps(SubSeq(s, k + 1, Len(s)))

\* os.path.normpath on the components of an absolute path: empty and "."
\* components go, ".." takes the component before it (none at the root)
RECURSIVE NormComps(_, _)
NormComps(acc, cs) ==
    IF cs = <<>> THEN acc
    ELSE LET c == Head(cs)
         IN  IF c = <<>> \/ c = <<DOT>> THEN NormComps(acc, Tail(cs))
             ELSE IF c = PARDIR
                  THEN NormComps(IF acc = <<>> THEN acc ELSE SubSeq(acc, 1, Len(acc) - 1), Tail(cs))
             ELSE NormComps(Append(acc, c), Tail(cs))

\* the node a path string names: its components from the root
Node(s) == NormComps(<<>>, Comps(Join(Cwd, s)))

\* the path string of a node
RECURSIVE NodeStr(_)
NodeStr(n) ==
    IF n = <<>> THEN <<SEP>>
    ELSE IF Len(n) = 1 THEN <<SEP>> \o n[1]
    ELSE NodeStr(SubSeq(n, 1, Len(n) - 1)) \o <<SEP>> \o n[Len(n)]

\* os.path.abspath
AbsPathOs(s) == NodeStr(Node(s))

\* utils.abs_path of ea_utils: the path made absolute
AbsPath(s) == AbsPathOs(s)

TrailingSep(s) == Len(s) > 0 /\ s[Len(s)] = SEP

ParentNode(n) == SubSeq(n, 1, Len(n) - 1)

\* the nodes strictly above n, the root excluded
Ancestors(n) == {SubSeq(n, 1, k) : k \in 1..(Len(n) - 1)}

----------------------------------------------------------------------------
(* The filesystem calls of os and open. *)

Kind(f, n) ==
    IF n \notin DOMAIN f THEN "none"
    ELSE IF f[n] = "dir" THEN "dir" ELSE "file"

\* os.path.exists: a path with a trailing separator names a directory only
Exists(f, s) ==
    LET n == Node(s)
    IN  /\ n \in DOMAIN f
        /\ TrailingSep(s) => f[n] = "dir"

Ok(f) == [fs |-> f, err |-> "none"]
Raise(f, e) == [fs |-> f, err |-> e]

\* os.mkdir
Mkdir(f, s) ==
    LET n == Node(s)
    IN  IF Kind(f, n) = "dir" THEN Raise(f, "FileExistsError")
        ELSE IF Kind(f, n) = "file"
             THEN Raise(f, IF TrailingSep(s) THEN "NotADirectoryError" ELSE "FileExistsError")
        ELSE IF Kind(f, ParentNode(n)) = "none" THEN Raise(f, "FileNotFoundError")
        ELSE IF Kind(f, ParentNode(n)) = "file" THEN Raise(f, "NotADirectoryError")
        ELSE Ok((n :> "dir") @@ f)

\* open(path, 'w').close(): creates the file, or truncates the one there
OpenW(f, s) ==
    LET n == Node(s)
    IN  IF Kind(f, n) = "dir" THEN Raise(f, "IsADirectoryError")
        ELSE IF Kind(f, n) = "file" /\ TrailingSep(s) THEN Raise(f, "NotADirectoryError")
        ELSE IF Kind(f, n) = "none" /\ TrailingSep(s) THEN Raise(f, "IsADirectoryError")
        ELSE IF Kind(f, ParentNode(n)) = "none" THEN Raise(f, "FileNotFoundError")
        ELSE IF Kind(f, ParentNode(n)) = "file" THEN Raise(f, "NotADirectoryError")
        ELSE Ok((n :> "empty") @@ f)

----------------------------------------------------------------------------
(* ea_config. *)

FOLDER_STRUCTURE ==
    << <<"static", SEP>>,
       <<"static", SEP, "scss", SEP, "styles", DOT, "scss">>,
       <<"static", SEP>>,
       <<"static", SEP, "js_src", SEP, "Main", DOT, "js">>,
       <<"static", SEP, "images", SEP>>,
       <<"static", SEP, "fonts", SEP>>,
       <<"templates", SEP>> >>

JS_FOLDERS == << <<"static", SEP, "js_src">> >>
SCSS_FOLDERS == << <<"static", SEP, "scss">> >>

LIVERELOAD ==
    << <<"static", SEP, "scss", SEP, "*", DOT, "scss">>,
       <<"static", SEP, "js_src", SEP, "*", DOT, "js">>,
       <<"templates", SEP, "*", DOT, "html">> >>

\* f % self.config: none of the configured strings holds a conversion
\* specifier, so formatting gives the string back
Format(s) == s

----------------------------------------------------------------------------
(* EnhancedApp._create_path and EnhancedApp.create_folder_structure. *)

\* a variant that looks for the first dot of the path instead of the last
IsFilePathFirstDot(path) == Find(path, DOT) > RFind(path, SEP)

\* path.rfind('.') > path.rfind(os.path.sep)
IsFilePath(path) == RFind(path, DOT) > RFind(path, SEP)

\* os.path.abspath(os.path.join(path, os.pardir))
Parent(path) == AbsPathOs(Join(path, PARDIR))

RECURSIVE CreatePath(_, _)
RECURSIVE EnsureParent(_, _)

\* while not os.path.exists(parent): self._create_path(parent)
EnsureParent(f, parent) ==
    IF Exists(f, parent) THEN Ok(f)
    ELSE LET r == CreatePath(f, parent)
         IN  IF r.err # "none" THEN r ELSE EnsureParent(r.fs, parent)

\* _create_path past its first test: the parents, then the path itself
CreateMissing(f, path) ==
    LET r == EnsureParent(f, Parent(path))
    IN  IF r.err # "none" THEN r
        ELSE IF IsFilePath(path) THEN OpenW(r.fs, path)
        ELSE Mkdir(r.fs, path)

\* a variant without the test that the path exists
CreatePathUnchecked(f, path) == CreateMissing(f, path)

CreatePath(f, path) ==
    IF Exists(f, path) THEN Ok(f) ELSE CreateMissing(f, path)

\* the loop of create_folder_structure from entry i on
RECURSIVE FolderLoop(_, _, _)
FolderLoop(f, folders, i) ==
    IF i > Len(folders) THEN Ok(f)
    ELSE LET p == Format(folders[i])
         IN  IF Exists(f, p) THEN Ok(f)
             ELSE LET r == CreatePath(f, p)
                  IN  IF r.err # "none" THEN r ELSE FolderLoop(r.fs, folders, i + 1)

CreateFolderStructure(f) == FolderLoop(f, FOLDER_STRUCTURE, 1)

----------------------------------------------------------------------------
(* The filesystems a project directory can be in. *)

CwdNode == Node(<<>>)

\* the paths the operations are called on
CreateInputs ==
    {FOLDER_STRUCTURE[i] : i \in 1..Len(FOLDER_STRUCTURE)} \cup
    { <<"static", SEP, "scss">>,
      <<"a", DOT, "b">>,
      <<"a", DOT, "b", SEP>>,
      <<"a", DOT, "b", SEP, "c">>,
      <<"a", DOT, "b", SEP, "c", DOT, "d">> }

\* every node an input names, and the nodes above it inside the project
ProjectNodes ==
    LET leaves == {Node(p) : p \in CreateInputs}
    IN  {n \in UNION {Ancestors(l) \cup {l} : l \in leaves} : Len(n) > Len(CwdNode)}

\* the part of a filesystem outside the project: the working directory
BaseFs == (<<>> :> "dir") @@ (CwdNode :> "dir")

WellFormed(f) ==
    \A n \in DOMAIN f : n # <<>> => Kind(f, ParentNode(n)) = "dir"

\* what a node of the project may be before the first call: a name with a dot
\* in it is a file, any other a directory, and three of them may be either
EitherKind == {Node(<<"static">>), Node(<<"static", SEP, "scss">>), Node(<<"a", DOT, "b">>)}

KindsBefore(n) ==
    IF n \in EitherKind THEN {"dir", "data"}
    ELSE IF DOT \in {n[Len(n)][i] : i \in 1..Len(n[Len(n)])} THEN {"data"}
    ELSE {"dir"}

ProjectFs(nodes) ==
    LET raw == UNION {[D -> {"dir", "data"}] : D \in SUBSET nodes}
    IN  {g @@ BaseFs : g \in {h \in raw : \A n \in DOMAIN h : h[n] \in KindsBefore(n)}}

InitialFs == {f \in ProjectFs(ProjectNodes) : WellFormed(f)}

NoCall == [op |-> "none", arg |-> <<>>, paths |-> <<>>, pre |-> BaseFs, err |-> "none", ret |-> <<>>]

NotServed == [port |-> 0, host |-> "none"]

WebIdle == handlers = <<>> /\ log = <<>>

LrIdle ==
    /\ lrpc = "idle"
    /\ lrPort = 0
    /\ debug = FALSE
    /\ lrGlobal = FALSE
    /\ autoReload = FALSE
    /\ watched = <<>>
    /\ served = NotServed

NoNode == [type |-> "none"]

NoStream == [toks |-> <<>>, values |-> <<>>, dropped |-> 0, closed |-> TRUE, body |-> <<>>]

NotParsed == [status |-> "idle", error |-> "none", node |-> NoNode]

NotRendered == [done |-> FALSE, ctx |-> <<>>, out |-> <<>>]

TplIdle == stream = NoStream /\ parsed = NotParsed /\ rendered = NotRendered

InitFs ==
    /\ WebIdle /\ LrIdle /\ TplIdle
    /\ fs \in InitialFs
    /\ fs0 = fs
    /\ calls = 0
    /\ call = NoCall

CallCreatePath(path) ==
    /\ calls < MaxCalls
    /\ LET r == CreatePath(fs, path)
       IN  /\ fs' = r.fs
           /\ call' = [op |-> "_create_path", arg |-> path, paths |-> <<>>, pre |-> fs, err |-> r.err, ret |-> <<>>]
    /\ calls' = calls + 1
    /\ UNCHANGED <<fs0, webvars, lrvars, tplvars>>

CallCreateFolderStructure ==
    /\ calls < MaxCalls
    /\ LET r == CreateFolderStructure(fs)
       IN  /\ fs' = r.fs
           /\ call' = [op |-> "create_folder_structure", arg |-> <<>>, paths |-> <<>>, pre |-> fs, err |-> r.err, ret |-> <<>>]
    /\ calls' = calls + 1
    /\ UNCHANGED <<fs0, webvars, lrvars, tplvars>>

NextFs ==
    \/ \E path \in CreateInputs : CallCreatePath(path)
    \/ CallCreateFolderStructure

SpecFs == InitFs /\ [][NextFs]_vars

----------------------------------------------------------------------------
(* EnhancedApp._find_file. *)

\* a variant that tries the bare filename first
CandidatesBareFirst(filename, paths) ==
    <<filename>> \o [i \in 1..Len(paths) |-> Join(paths[i], filename)]

\* a variant that leaves the bare filename out
CandidatesFoldersOnly(filename, paths) ==
    [i \in 1..Len(paths) |-> Join(paths[i], filename)]

\* [os.path.join(_p, filename) for _p in paths] + [filename]
Candidates(filename, paths) ==
    [i \in 1..Len(paths) |-> Join(paths[i], filename)] \o <<filename>>

\* the loop over the candidates from the i-th on, and the raise after it
RECURSIVE FindLoop(_, _, _)
FindLoop(f, cands, i) ==
    IF i > Len(cands) THEN [err |-> "Exception: File not found", ret |-> <<>>]
    ELSE IF Exists(f, cands[i]) THEN [err |-> "none", ret |-> AbsPath(cands[i])]
    ELSE FindLoop(f, cands, i + 1)

FindFile(f, filename, paths) == FindLoop(f, Candidates(filename, paths), 1)

\* the files looked for and the folders searched
FindNames == { <<"Main", DOT, "js">>, <<"styles", DOT, "scss">> }
FindFolders == { JS_FOLDERS[1], SCSS_FOLDERS[1] }

RECURSIVE SeqsUpTo(_, _)
SeqsUpTo(S, n) ==
    IF n = 0 THEN {<<>>}
    ELSE LET shorter == SeqsUpTo(S, n - 1)
         IN  shorter \cup {Append(q, x) : q \in shorter, x \in S}

FindNodes ==
    LET leaves == {Node(Join(d, n)) : d \in FindFolders, n \in FindNames}
                      \cup {Node(n) : n \in FindNames}
    IN  {n \in UNION {Ancestors(l) \cup {l} : l \in leaves} : Len(n) > Len(CwdNode)}

InitFind ==
    /\ WebIdle /\ LrIdle /\ TplIdle
    /\ fs \in {f \in ProjectFs(FindNodes) : WellFormed(f)}
    /\ fs0 = fs
    /\ calls = 0
    /\ call = NoCall

CallFindFile(filename, paths) ==
    /\ calls < MaxCalls
    /\ LET r == FindFile(fs, filename, paths)
       IN  call' = [op |-> "_find_file", arg |-> filename, paths |-> paths,
                    pre |-> fs, err |-> r.err, ret |-> r.ret]
    /\ calls' = calls + 1
    /\ UNCHANGED <<fs, fs0, webvars, lrvars, tplvars>>

NextFind ==
    \E filename \in FindNames, paths \in SeqsUpTo(FindFolders, MaxPaths) :
        CallFindFile(filename, paths)

SpecFind == InitFind /\ [][NextFind]_vars

----------------------------------------------------------------------------
(* The claims about _create_path and create_folder_structure. *)

HasDot(c) == \E i \in 1..Len(c) : c[i] = DOT

\* the text of a path after its last separator
FinalComponent(s) == LET cs == Comps(s) IN cs[Len(cs)]

CreatePathReturned ==
    /\ call.op = "_create_path"
    /\ ~Exists(call.pre, call.arg)
    /\ call.err = "none"

\* C6: after create_folder_structure returns normally, every path of the
\* configured folder structure exists, whatever existed before.
C6_AllListedExist ==
    (call.op = "create_folder_structure" /\ call.err = "none")
        => \A i \in 1..Len(FOLDER_STRUCTURE) : Exists(fs, FOLDER_STRUCTURE[i])

\* C8: when _create_path is called on a path that does not exist and returns
\* normally, every ancestor of the path that was missing is now a directory,
\* and the path is an empty file if its final component has a dot in it and
\* a directory otherwise.
C8_CreatedKinds ==
    CreatePathReturned =>
        LET n == Node(call.arg)
        IN  /\ \A a \in Ancestors(n) : a \notin DOMAIN call.pre => a \in DOMAIN fs /\ fs[a] = "dir"
            /\ \A a \in Ancestors(n) : Kind(fs, a) = "dir"
            /\ n \in DOMAIN fs
            /\ fs[n] = IF HasDot(FinalComponent(call.arg)) THEN "empty" ELSE "dir"

\* a file was created two levels below the deepest directory that existed
C8_Witness ==
    /\ CreatePathReturned
    /\ Cardinality({a \in Ancestors(Node(call.arg)) : a \notin DOMAIN call.pre}) >= 2
    /\ fs[Node(call.arg)] = "empty"

\* an ancestor that is missing and has a dot in its name is created as a
\* file, and the call then raises: it never returns normally
DottedAncestorRaises ==
    (/\ call.op = "_create_path"
     /\ \E a \in Ancestors(Node(call.arg)) : a \notin DOMAIN call.pre /\ HasDot(a[Len(a)]))
        => /\ call.err = "NotADirectoryError"
           /\ \E a \in Ancestors(Node(call.arg)) : a \notin DOMAIN call.pre /\ Kind(fs, a) = "file"

\* C9: whatever existed when the calls began still exists, with the same
\* kind and content; the calls only create what did not exist.
C9_NothingAltered ==
    /\ \A n \in DOMAIN fs0 : n \in DOMAIN fs /\ fs[n] = fs0[n]
    /\ \A n \in DOMAIN call.pre : n \in DOMAIN fs /\ fs[n] = call.pre[n]
    /\ \A n \in DOMAIN fs : n \notin DOMAIN fs0 => fs[n] \in {"dir", "empty"}

\* both operations have run on a project that held a file with content, one
\* of them on the path of that file, and something was created
C9_Witness ==
    /\ calls >= 2
    /\ fs # fs0
    /\ call.op = "_create_path"
    /\ call.err = "none"
    /\ Node(call.arg) \in DOMAIN fs0
    /\ fs0[Node(call.arg)] = "data"

----------------------------------------------------------------------------
(* The claims about _find_file. *)

\* the candidates of a call: the filename in each search folder, and bare
CandidateSet(filename, paths) ==
    {Join(paths[i], filename) : i \in 1..Len(paths)} \cup {filename}

\* the candidates in their order of priority: folder by folder, the bare name last
Priority(filename, paths) ==
    [i \in 1..(Len(paths) + 1) |->
        IF i <= Len(paths) THEN Join(paths[i], filename) ELSE filename]

\* C4: _find_file raises 'File not found' exactly when none of its candidates
\* exists; when one exists it returns a path and raises nothing.
C4_RaisesIffNoCandidate ==
    call.op = "_find_file" =>
        LET none == \A c \in CandidateSet(call.arg, call.paths) : ~Exists(fs, c)
        IN  /\ (call.err = "Exception: File not found") <=> none
            /\ ~none => call.err = "none" /\ call.ret # <<>>

\* only the bare filename exists, and the call returned it
C4_Witness ==
    /\ call.op = "_find_file"
    /\ Len(call.paths) = MaxPaths
    /\ \A i \in 1..Len(call.paths) : ~Exists(fs, Join(call.paths[i], call.arg))
    /\ Exists(fs, call.arg)
    /\ call.err = "none"

\* C7: _find_file returns the absolute path of the first candidate that
\* exists, the candidates taken folder by folder in the order of paths and
\* the bare filename last.
C7_FirstExistingWins ==
    (call.op = "_find_file" /\ call.err = "none") =>
        LET order == Priority(call.arg, call.paths)
        IN  \E k \in 1..Len(order) :
                /\ Exists(fs, order[k])
                /\ \A j \in 1..(k - 1) : ~Exists(fs, order[j])
                /\ call.ret = AbsPathOs(order[k])

\* the file exists in two different search folders and bare, and the copy
\* in the first folder was returned
C7_Witness ==
    /\ call.op = "_find_file"
    /\ Len(call.paths) = 2
    /\ call.paths[1] # call.paths[2]
    /\ \A c \in CandidateSet(call.arg, call.paths) : Exists(fs, c)
    /\ call.ret = AbsPathOs(Join(call.paths[1], call.arg))

----------------------------------------------------------------------------
(* EnhancedApp.add_error_handlers and the handlers it registers. *)

\* render_template(name, error=e): the page the template gives for the error
RenderTemplate(name, e) == [template |-> name, error |-> e, body |-> "page"]

\* a response that is a plain string, no template rendered
Plain(text) == [template |-> "none", error |-> "none", body |-> text]

Respond(content, status) == [content |-> content, status |-> status]

content_gone(e, path) == Respond(RenderTemplate("410.html", e), 410)

access_denied(e, path) == Respond(RenderTemplate("403.html", e), 403)

\* a variant without the test of the request path
content_not_found_any_path(e, path) == Respond(RenderTemplate("404.html", e), 404)

content_not_found(e, path) ==
    IF path = "/favicon.ico" THEN Respond(Plain("Not found"), 404)
    ELSE Respond(RenderTemplate("404.html", e), 404)

\* the call of a registered handler
Handle(name, e, path) ==
    CASE name = "content_gone" -> content_gone(e, path)
      [] name = "access_denied" -> access_denied(e, path)
      [] name = "content_not_found" -> content_not_found(e, path)

\* the status codes an aborted request can carry, and the paths requested
ErrorCodes == {403, 404, 410, 500}
RequestPaths == {"/", "/favicon.ico", "/about"}

\* the exception object of an HTTP error
HttpError(code) == [code |-> code]

InitWeb ==
    /\ fs = BaseFs /\ fs0 = BaseFs /\ calls = 0 /\ call = NoCall
    /\ LrIdle /\ TplIdle
    /\ handlers = <<>>
    /\ log = <<>>

AddErrorHandlers ==
    /\ handlers = <<>>
    /\ handlers' = (410 :> "content_gone") @@ (403 :> "access_denied")
                        @@ (404 :> "content_not_found")
    /\ UNCHANGED <<log, fsvars, lrvars, tplvars>>

\* a request to path ends in the HTTP error code: the app calls the handler
\* registered for the code, or answers by itself when there is none
HandleError(code, path) ==
    /\ handlers # <<>>
    /\ Len(log) < MaxRequests
    /\ LET e == HttpError(code)
           response == IF code \in DOMAIN handlers
                       THEN Handle(handlers[code], e, path)
                       ELSE Respond(Plain("default"), code)
       IN  log' = Append(log, [code |-> code, path |-> path, error |-> e,
                               response |-> response])
    /\ UNCHANGED <<handlers, fsvars, lrvars, tplvars>>

NextWeb ==
    \/ AddErrorHandlers
    \/ \E code \in ErrorCodes, path \in RequestPaths : HandleError(code, path)

SpecWeb == InitWeb /\ [][NextWeb]_vars

----------------------------------------------------------------------------
(* The claim about the error handlers. *)

HandledCodes == {403, 404, 410}

\* the template 'S.html' of a status code S
PageOf(code) ==
    CASE code = 403 -> "403.html"
      [] code = 404 -> "404.html"
      [] code = 410 -> "410.html"

RendersPage(entry) ==
    /\ entry.response.content = RenderTemplate(PageOf(entry.code), entry.error)
    /\ entry.response.status = entry.code

\* C5 as stated: for every handled status code S and every request path the
\* handler renders 'S.html' with the error and returns status S.
C5_AlwaysRendersPage ==
    \A i \in 1..Len(log) : log[i].code \in HandledCodes => RendersPage(log[i])

\* C5 amended: the handler returns status S for every request path; it
\* renders 'S.html' with the error for every path but '/favicon.ico' under
\* 404, where it answers the plain text 'Not found' and renders no template.
C5_RendersPageButFavicon ==
    \A i \in 1..Len(log) :
        log[i].code \in HandledCodes =>
            /\ log[i].response.status = log[i].code
            /\ IF log[i].code = 404 /\ log[i].path = "/favicon.ico"
               THEN log[i].response.content = Plain("Not found")
               ELSE RendersPage(log[i])

\* a 404 on the favicon and a 404 on another path have both been handled
C5_Witness ==
    /\ \E i \in 1..Len(log) : log[i].code = 404 /\ log[i].path = "/favicon.ico"
    /\ \E i \in 1..Len(log) : log[i].code = 404 /\ log[i].path = "/about"

----------------------------------------------------------------------------
(* EnhancedApp.run_livereload. *)

DefaultPort == 8080

Ports == {DefaultPort, 5000}

InitLr ==
    /\ WebIdle /\ TplIdle /\ LrIdle
    /\ fs \in InitialFs
    /\ fs0 = fs
    /\ calls = 0
    /\ call = NoCall

\* run_livereload(port) is called
LrCall(port) ==
    /\ lrpc = "idle"
    /\ lrpc' = "debug"
    /\ lrPort' = port
    /\ UNCHANGED <<debug, lrGlobal, autoReload, watched, served, fsvars, webvars, tplvars>>

\* self.app.debug = True
LrSetDebug ==
    /\ lrpc = "debug"
    /\ debug' = TRUE
    /\ lrpc' = "global"
    /\ UNCHANGED <<lrPort, lrGlobal, autoReload, watched, served, fsvars, webvars, tplvars>>

\* self.app.jinja_env.globals['livereload'] = True
LrSetGlobal ==
    /\ lrpc = "global"
    /\ lrGlobal' = TRUE
    /\ lrpc' = "auto_reload"
    /\ UNCHANGED <<lrPort, debug, autoReload, watched, served, fsvars, webvars, tplvars>>

\* self.app.jinja_env.auto_reload = True
LrSetAutoReload ==
    /\ lrpc = "auto_reload"
    /\ autoReload' = TRUE
    /\ lrpc' = "folders"
    /\ UNCHANGED <<lrPort, debug, lrGlobal, watched, served, fsvars, webvars, tplvars>>

\* self.create_folder_structure(); what it raises ends run_livereload
LrCreateFolders ==
    /\ lrpc = "folders"
    /\ LET r == CreateFolderStructure(fs)
       IN  /\ fs' = r.fs
           /\ call' = [op |-> "create_folder_structure", arg |-> <<>>, paths |-> <<>>,
                        pre |-> fs, err |-> r.err, ret |-> <<>>]
           /\ lrpc' = IF r.err = "none" THEN "server" ELSE "raised"
    /\ calls' = calls + 1
    /\ UNCHANGED <<fs0, lrPort, debug, lrGlobal, autoReload, watched, served, webvars, tplvars>>

\* server = livereload.Server(self.app.wsgi_app)
LrNewServer ==
    /\ lrpc = "server"
    /\ lrpc' = "watch"
    /\ UNCHANGED <<lrPort, debug, lrGlobal, autoReload, watched, served, fsvars, webvars, tplvars>>

\* one turn of the loop: server.watch(utils.abs_path(f % self.config))
LrWatch ==
    /\ lrpc = "watch"
    /\ Len(watched) < Len(LIVERELOAD)
    /\ watched' = Append(watched, AbsPath(Format(LIVERELOAD[Len(watched) + 1])))
    /\ UNCHANGED <<lrpc, lrPort, debug, lrGlobal, autoReload, served, fsvars, webvars, tplvars>>

\* a variant that serves without waiting for the loop to end
LrServeEarly ==
    /\ lrpc = "watch"
    /\ served' = [port |-> lrPort, host |-> "0.0.0.0"]
    /\ lrpc' = "watch"
    /\ UNCHANGED <<lrPort, debug, lrGlobal, autoReload, watched, fsvars, webvars, tplvars>>

\* the loop is over: server.serve(port=port, host='0.0.0.0')
LrServe ==
    /\ lrpc = "watch"
    /\ Len(watched) = Len(LIVERELOAD)
    /\ served' = [port |-> lrPort, host |-> "0.0.0.0"]
    /\ lrpc' = "serving"
    /\ UNCHANGED <<lrPort, debug, lrGlobal, autoReload, watched, fsvars, webvars, tplvars>>

NextLr ==
    \/ \E port \in Ports : LrCall(port)
    \/ LrSetDebug
    \/ LrSetGlobal
    \/ LrSetAutoReload
    \/ LrCreateFolders
    \/ LrNewServer
    \/ LrWatch
    \/ LrServe

SpecLr == InitLr /\ [][NextLr]_vars

----------------------------------------------------------------------------
(* The claim about run_livereload. *)

SwitchedOn == debug /\ lrGlobal /\ autoReload

FoldersCalled == call.op = "create_folder_structure"

\* every configured pattern, made absolute, once and in the configured order
AllWatches == [i \in 1..Len(LIVERELOAD) |-> AbsPathOs(LIVERELOAD[i])]

LrOrder ==
    /\ FoldersCalled => SwitchedOn
    /\ watched # <<>> => FoldersCalled /\ call.err = "none"
    /\ \A i, j \in 1..Len(watched) : watched[i] = watched[j] => i = j
    /\ served # NotServed =>
            /\ watched = AllWatches
            /\ served = [port |-> lrPort, host |-> "0.0.0.0"]

\* C10: run_livereload switches debug mode, the 'livereload' global and
\* template auto-reload on, then calls create_folder_structure, then
\* registers every configured watch pattern exactly once, and only then
\* calls serve on the given port and host 0.0.0.0; nothing is registered
\* once serve has been called.
C10_StepsInOrder ==
    /\ []LrOrder
    /\ [][/\ fs' # fs => SwitchedOn /\ watched = <<>>
          /\ call' # call => SwitchedOn /\ watched = <<>>
          /\ served # NotServed => watched' = watched /\ served' = served]_vars

\* serve was called on a port other than the default, after the folder
\* structure call created something
C10_Witness ==
    /\ served = [port |-> 5000, host |-> "0.0.0.0"]
    /\ fs # fs0
    /\ watched = AllWatches

----------------------------------------------------------------------------
(* The template engine under RequiredVariablesExtension: its token stream, *)
(* the parser calls the extension makes and the rendering of the two node  *)
(* types it builds.  Targets are names and expressions are names or        *)
(* integer literals.                                                       *)

Tok(type, value) == [type |-> type, value |-> value]

\* nodes.Name, nodes.Const, nodes.And, nodes.Output
NameNode(name, ctx) == [type |-> "Name", name |-> name, ctx |-> ctx]
ConstNode(value) == [type |-> "Const", value |-> value]
AndNode(left, right) == [type |-> "And", left |-> left, right |-> right]
OutputNode(item) == [type |-> "Output", item |-> item]
DataNode(text) == [type |-> "TemplateData", data |-> text]

\* parser.stream.current: past the last token the stream gives eof
Current(toks, pos) == IF pos > Len(toks) THEN Tok("eof", "") ELSE toks[pos]

HostError(pos) == [err |-> "TemplateSyntaxError", pos |-> pos, node |-> NoNode]

\* parser.stream.expect(type)
Expect(toks, pos, type) ==
    IF Current(toks, pos).type = type
    THEN [err |-> "none", pos |-> pos + 1, node |-> NoNode]
    ELSE HostError(pos)

\* parser.parse_assign_target()
ParseAssignTarget(toks, pos) ==
    IF Current(toks, pos).type = "name"
    THEN [err |-> "none", pos |-> pos + 1, node |-> NameNode(Current(toks, pos).value, "store")]
    ELSE HostError(pos)

\* parser.parse_expression()
ParseExpression(toks, pos) ==
    LET t == Current(toks, pos)
    IN  IF t.type = "name"
        THEN [err |-> "none", pos |-> pos + 1, node |-> NameNode(t.value, "load")]
        ELSE IF t.type = "integer"
        THEN [err |-> "none", pos |-> pos + 1, node |-> ConstNode(t.value)]
        ELSE HostError(pos)

\* the statements of a body up to the block that opens with the end name
RECURSIVE SubParse(_, _, _, _)
SubParse(toks, pos, end, body) ==
    LET t == Current(toks, pos)
    IN  IF t.type = "data"
        THEN SubParse(toks, pos + 1, end, Append(body, OutputNode(DataNode(t.value))))
        ELSE IF t.type = "variable_begin"
        THEN LET e == ParseExpression(toks, pos + 1)
             IN  IF e.err # "none" THEN [err |-> e.err, pos |-> e.pos, body |-> body]
                 ELSE LET c == Expect(toks, e.pos, "variable_end")
                      IN  IF c.err # "none" THEN [err |-> c.err, pos |-> c.pos, body |-> body]
                          ELSE SubParse(toks, c.pos, end, Append(body, OutputNode(e.node)))
        ELSE IF t.type = "block_begin" /\ Current(toks, pos + 1) = Tok("name", end)
        THEN [err |-> "none", pos |-> pos + 1, body |-> body]
        ELSE [err |-> "TemplateSyntaxError", pos |-> pos, body |-> body]

\* parser.parse_statements((name:end,), drop_needle=True)
ParseStatements(toks, pos, end) ==
    LET b == Expect(toks, pos, "block_end")
    IN  IF b.err # "none" THEN [err |-> b.err, pos |-> b.pos, body |-> <<>>]
        ELSE LET r == SubParse(toks, b.pos, end, <<>>)
             IN  IF r.err # "none" THEN r
                 ELSE [err |-> "none", pos |-> r.pos + 1, body |-> r.body]

----------------------------------------------------------------------------
(* RequiredVariablesExtension.parse. *)

\* target.set_ctx('param')
SetCtx(node, ctx) == [node EXCEPT !.ctx = ctx]

\* the while loop of parse: one assignment per turn, until block_end
RECURSIVE AssignLoop(_, _, _, _)
AssignLoop(toks, pos, targets, values) ==
    IF Current(toks, pos).type = "block_end"
    THEN [err |-> "none", pos |-> pos, targets |-> targets, values |-> values]
    ELSE LET c == IF targets # <<>> THEN Expect(toks, pos, "comma")
                  ELSE [err |-> "none", pos |-> pos, node |-> NoNode]
             t == ParseAssignTarget(toks, c.pos)
             a == Expect(toks, t.pos, "assign")
             v == ParseExpression(toks, a.pos)
             failed == CASE c.err # "none" -> c
                         [] t.err # "none" -> t
                         [] a.err # "none" -> a
                         [] OTHER -> v
         IN  IF failed.err # "none"
             THEN [err |-> failed.err, pos |-> failed.pos, targets |-> targets, values |-> values]
             ELSE AssignLoop(toks, v.pos, Append(targets, SetCtx(t.node, "param")),
                             Append(values, v.node))

\* for i in range(2, len(values)): test = nodes.And(left=test, right=values[i])
\* (values[i] of the code is values[i + 1] here)
RECURSIVE AndLoop(_, _, _)
AndLoop(test, values, i) ==
    IF i >= Len(values) THEN test
    ELSE AndLoop(AndNode(test, values[i + 1]), values, i + 1)

\* a variant whose loop starts one value too late
RequiredTestLateLoop(values) ==
    IF Len(values) = 1 THEN [err |-> "none", test |-> values[1]]
    ELSE IF Len(values) = 0 THEN [err |-> "IndexError", test |-> NoNode]
    ELSE [err |-> "none", test |-> AndLoop(AndNode(values[1], values[2]), values, 3)]

\* the test of the If node; values[0] of an empty list raises IndexError
RequiredTest(values) ==
    IF Len(values) = 1 THEN [err |-> "none", test |-> values[1]]
    ELSE IF Len(values) = 0 THEN [err |-> "IndexError", test |-> NoNode]
    ELSE [err |-> "none", test |-> AndLoop(AndNode(values[1], values[2]), values, 2)]

WithNode(targets, values, body) ==
    [type |-> "With", targets |-> targets, values |-> values, body |-> body]

\* a variant that hands the If node the body of the With node
IfNodeUnnested(test, with) ==
    [type |-> "If", test |-> test, body |-> with.body, elif_ |-> <<>>, else_ |-> <<>>]

IfNode(test, with) ==
    [type |-> "If", test |-> test, body |-> <<with>>, elif_ |-> <<>>, else_ |-> <<>>]

\* parse, the stream standing on the `required` name token
Parse(toks) ==
    LET l == AssignLoop(toks, 2, <<>>, <<>>)
    IN  IF l.err # "none" THEN [status |-> "host_error", error |-> l.err, node |-> NoNode]
        ELSE LET b == ParseStatements(toks, l.pos, "endrequired")
             IN  IF b.err # "none"
                 THEN [status |-> "host_error", error |-> b.err, node |-> NoNode]
                 ELSE LET t == RequiredTest(l.values)
                      IN  IF t.err # "none"
                          THEN [status |-> "own_error", error |-> t.err, node |-> NoNode]
                          ELSE [status |-> "node", error |-> "none",
                                node |-> IfNode(t.test, WithNode(l.targets, l.values, b.body))]

----------------------------------------------------------------------------
(* Rendering of the nodes. *)

Undefined == [undefined |-> TRUE]
IntVal(n) == [int |-> n]
StrVal(x) == [str |-> x]

Truthy(v) == v # Undefined /\ v # IntVal(0) /\ v # StrVal("")

RECURSIVE Eval(_, _)
Eval(e, ctx) ==
    CASE e.type = "Name" -> IF e.name \in DOMAIN ctx THEN ctx[e.name] ELSE Undefined
      [] e.type = "Const" -> IntVal(e.value)
      [] e.type = "TemplateData" -> StrVal(e.data)
      [] e.type = "And" -> LET l == Eval(e.left, ctx)
                           IN  IF Truthy(l) THEN Eval(e.right, ctx) ELSE l

\* the context inside a With node: each target bound to its value, the
\* values taken in the context outside
RECURSIVE Bind(_, _, _, _)
Bind(targets, values, outer, i) ==
    IF i > Len(targets) THEN outer
    ELSE (targets[i].name :> Eval(values[i], outer)) @@ Bind(targets, values, outer, i + 1)

RECURSIVE Render(_, _)
RECURSIVE RenderAll(_, _)

RenderAll(nodes, ctx) ==
    IF nodes = <<>> THEN <<>>
    ELSE Render(Head(nodes), ctx) \o RenderAll(Tail(nodes), ctx)

Render(node, ctx) ==
    CASE node.type = "Output" -> <<Eval(node.item, ctx)>>
      [] node.type = "With" ->
            RenderAll(node.body, Bind(node.targets, node.values, ctx, 1))
      [] node.type = "If" ->
            IF Truthy(Eval(node.test, ctx)) THEN RenderAll(node.body, ctx)
            ELSE RenderAll(node.else_, ctx)

----------------------------------------------------------------------------
(* The templates parsed and the contexts they are rendered in. *)

\* the i-th target of a tag
TargetNames == <<"a", "b", "c", "d", "e">>

\* the value expressions written in a tag, as source tokens
ValueToks == {Tok("name", "x"), Tok("name", "y"), Tok("integer", 0), Tok("integer", 1)}

\* the tokens of `t1 = v1, ..., tn = vn`
RECURSIVE AssignToks(_, _)
AssignToks(vals, i) ==
    IF i > Len(vals) THEN <<>>
    ELSE (IF i > 1 THEN <<Tok("comma", ",")>> ELSE <<>>)
             \o <<Tok("name", TargetNames[i]), Tok("assign", "="), vals[i]>>
             \o AssignToks(vals, i + 1)

\* the bodies: text, or text and the first target printed
Bodies ==
    { <<Tok("data", "text")>>,
      <<Tok("data", "text"), Tok("variable_begin", "{{"), Tok("name", "a"),
        Tok("variable_end", "}}")>> }

Without(q, k) == IF k = 0 THEN q ELSE SubSeq(q, 1, k - 1) \o SubSeq(q, k + 1, Len(q))

\* a `required` block: the tag with the k-th token of its assignments left
\* out (none for k = 0), the body, and the closing tag unless left open
Template(vals, k, body, closed) ==
    <<Tok("name", "required")>> \o Without(AssignToks(vals, 1), k)
        \o <<Tok("block_end", "%}")>> \o body
        \o (IF closed
            THEN <<Tok("block_begin", "{%"), Tok("name", "endrequired"), Tok("block_end", "%}")>>
            ELSE <<>>)

Contexts ==
    { ("x" :> IntVal(0)), ("x" :> IntVal(1)), ("x" :> IntVal(1)) @@ ("y" :> IntVal(1)) }

InitTpl ==
    /\ fs = BaseFs /\ fs0 = BaseFs /\ calls = 0 /\ call = NoCall
    /\ WebIdle /\ LrIdle
    /\ \E vals \in SeqsUpTo(ValueToks, MaxAssign), body \in Bodies, closed \in BOOLEAN :
          \E k \in 0..Len(AssignToks(vals, 1)) :
              stream = [toks |-> Template(vals, k, body, closed), values |-> vals,
                        dropped |-> k, closed |-> closed, body |-> body]
    /\ parsed = NotParsed
    /\ rendered = NotRendered

\* the engine calls the extension on the tag
ParseTag ==
    /\ parsed.status = "idle"
    /\ parsed' = Parse(stream.toks)
    /\ UNCHANGED <<stream, rendered, fsvars, webvars, lrvars>>

\* the template is rendered in a context
RenderNode(ctx) ==
    /\ parsed.status = "node"
    /\ ~rendered.done
    /\ rendered' = [done |-> TRUE, ctx |-> ctx, out |-> Render(parsed.node, ctx)]
    /\ UNCHANGED <<stream, parsed, fsvars, webvars, lrvars>>

NextTpl ==
    \/ ParseTag
    \/ \E ctx \in Contexts : RenderNode(ctx)

SpecTpl == InitTpl /\ [][NextTpl]_vars

----------------------------------------------------------------------------
(* The claims about RequiredVariablesExtension.parse. *)

\* the node of a value expression as written in the tag
ValueNode(t) == IF t.type = "name" THEN NameNode(t.value, "load") ELSE ConstNode(t.value)

\* the value expressions of the tag, as nodes, in source order
SourceValues == [i \in 1..Len(stream.values) |-> ValueNode(stream.values[i])]

\* the tag is written as the grammar asks and its block is closed
WellWritten == stream.dropped = 0 /\ stream.closed

\* the conjunction of vs[1..n], nested to the left
RECURSIVE LeftNested(_, _)
LeftNested(vs, n) ==
    IF n = 1 THEN vs[1] ELSE AndNode(LeftNested(vs, n - 1), vs[n])

\* the leaves of a test, left to right
RECURSIVE Leaves(_)
Leaves(e) == IF e.type = "And" THEN Leaves(e.left) \o Leaves(e.right) ELSE <<e>>

\* the value of a source expression in a context
ValueIn(t, ctx) ==
    IF t.type = "integer" THEN IntVal(t.value)
    ELSE IF t.value \in DOMAIN ctx THEN ctx[t.value] ELSE Undefined

AllTruthy(ctx) == \A i \in 1..Len(stream.values) : Truthy(ValueIn(stream.values[i], ctx))

\* what the body gives inside the block: its text, and the first target's
\* value where the body prints it
BodyOutput(ctx) ==
    [i \in 1..(IF Len(stream.body) = 1 THEN 1 ELSE 2) |->
        IF i = 1 THEN StrVal("text") ELSE ValueIn(stream.values[1], ctx)]

\* C1: for a tag of n >= 1 assignments the node parse returns renders the
\* body exactly when every value is truthy and renders nothing otherwise;
\* its test is the value itself for n = 1 and the left-nested conjunction of
\* the values, each once and in source order, for n >= 2.
C1_RendersIffAllTruthy ==
    (parsed.status = "node" /\ Len(stream.values) >= 1 /\ WellWritten) =>
        /\ parsed.node.test = LeftNested(SourceValues, Len(SourceValues))
        /\ Leaves(parsed.node.test) = SourceValues
        /\ rendered.done =>
              /\ AllTruthy(rendered.ctx) => rendered.out = BodyOutput(rendered.ctx)
              /\ ~AllTruthy(rendered.ctx) => rendered.out = <<>>

\* three values, only the last of them falsy, and nothing was rendered
C1_Witness ==
    /\ parsed.status = "node"
    /\ rendered.done
    /\ Len(stream.values) = 3
    /\ Truthy(ValueIn(stream.values[1], rendered.ctx))
    /\ Truthy(ValueIn(stream.values[2], rendered.ctx))
    /\ ~Truthy(ValueIn(stream.values[3], rendered.ctx))
    /\ rendered.out = <<>>

\* C2: whatever the tag holds, parse returns a node or fails with an error
\* of one of the host parser's calls; it never fails with an error of its own.
C2_NoOwnError == parsed.status \in {"idle", "node", "host_error"}

\* C3: what parse returns is an If node with empty else_ and elif_ whose
\* body is one With node; the With node has target i paired with value i in
\* the order written, and the statements before `endrequired` as its body.
C3_IfAroundWith ==
    parsed.status = "node" =>
        /\ parsed.node.type = "If"
        /\ parsed.node.else_ = <<>>
        /\ parsed.node.elif_ = <<>>
        /\ Len(parsed.node.body) = 1
        /\ LET with == parsed.node.body[1]
           IN  /\ with.type = "With"
               /\ Len(with.targets) = Len(with.values)
               /\ WellWritten =>
                     /\ Len(with.values) = Len(stream.values)
                     /\ \A i \in 1..Len(stream.values) :
                            /\ with.targets[i] = NameNode(TargetNames[i], "param")
                            /\ with.values[i] = ValueNode(stream.values[i])
                     /\ Len(with.body) = (IF Len(stream.body) = 1 THEN 1 ELSE 2)
                     /\ with.body[1] = OutputNode(DataNode("text"))
                     /\ Len(with.body) = 2 => with.body[2] = OutputNode(NameNode("a", "load"))

\* a tag of three assignments whose body prints a target was parsed
C3_Witness ==
    /\ parsed.status = "node"
    /\ WellWritten
    /\ Len(stream.values) = 3
    /\ Len(parsed.node.body[1].body) = 2

====
